---- MODULE Spec2Model ----
(***************************************************************************)
(* InsightsAI backend: the in-memory dataset store of                      *)
(* services/data_service.py, the summary, pagination and chart             *)
(* aggregations computed from it, and the HTTP handlers of routers/*.py    *)
(* that wrap them.                                                         *)
(*                                                                         *)
(* Text that the code inspects character by character (column names,      *)
(* file names) is a sequence of one-character strings.  Cell text of a     *)
(* CSV file is an atomic string; NumTable, DateTable and StrOrder say how  *)
(* pandas reads, dates and orders the cell texts that occur.               *)
(*                                                                         *)
(* Spec serves one request at a time; SpecHist and SpecIdem add a history  *)
(* to it, SpecCfg starts it under other configurations, and SpecConc       *)
(* interleaves the requests at every access to current_df.  SpecEq serves  *)
(* each request to the routers and to the monolithic main.py side by side. *)
(***************************************************************************)
EXTENDS Integers, Sequences, FiniteSets, TLC

VARIABLES
    current_df,   \* data_service.current_df: None or the active DataFrame
    upload_dir,   \* names of the files written under settings.upload_dir
    resp,         \* the request last served and the response it got
    last_ok,      \* history (kept under SpecHist only): None, or the Shape of the
                  \* input of the last load that returned success
    settings,     \* core/config.py Settings, fixed when the process starts
    first_summary, \* history (kept under SpecIdem only): None, or the first
                  \* get_summary response since the last load request, and
                  \* how many get_summary requests there were since (up to 2)
    reqs,         \* SpecConc only: per concurrent request, its operation, its
                  \* position in the code and its local variables
    main          \* SpecEq only: the monolithic application of main.py served
                  \* the same requests: its current_df, the files under its
                  \* UPLOAD_DIR and its last response

vars == <<current_df, upload_dir, resp, last_ok, settings, first_summary, reqs, main>>

\* ------------------------------------------------------------------ bounds
MaxRows == 2      \* data rows per CSV file
MaxPage == 2      \* page and page_size range over -1..MaxPage

\* ------------------------------------------------------------- text helpers
UpperChars == <<"A","B","C","D","E","F","G","H","I","J","K","L","M",
                "N","O","P","Q","R","S","T","U","V","W","X","Y","Z">>
LowerChars == <<"a","b","c","d","e","f","g","h","i","j","k","l","m",
                "n","o","p","q","r","s","t","u","v","w","x","y","z">>

\* str.lower() on one character
LowerChar(ch) ==
    IF \E i \in 1..Len(UpperChars) : UpperChars[i] = ch
    THEN LowerChars[CHOOSE i \in 1..Len(UpperChars) : UpperChars[i] = ch]
    ELSE ch

\* str.lower()
Lower(s) == [i \in 1..Len(s) |-> LowerChar(s[i])]

\* `kw in s` for strings
Contains(s, kw) ==
    \E i \in 0..(Len(s) - Len(kw)) : SubSeq(s, i + 1, i + Len(kw)) = kw

\* s.endswith(suf)
EndsWith(s, suf) ==
    /\ Len(s) >= Len(suf)
    /\ SubSeq(s, Len(s) - Len(suf) + 1, Len(s)) = suf

Min(a, b) == IF a <= b THEN a ELSE b
Max(a, b) == IF a >= b THEN a ELSE b

\* Python's a // b (floor division) for b # 0
PyFloorDiv(a, b) == IF b > 0 THEN a \div b ELSE (0 - a) \div (0 - b)

\* ------------------------------------------------------------ column names
kwDate     == <<"d","a","t","e">>
kwMonth    == <<"m","o","n","t","h">>
kwCategory == <<"c","a","t","e","g","o","r","y">>
kwProduct  == <<"p","r","o","d","u","c","t">>
kwRegion   == <<"r","e","g","i","o","n">>
kwCampaign == <<"c","a","m","p","a","i","g","n">>

colRevenue  == <<"r","e","v","e","n","u","e">>
colCustomers == <<"c","u","s","t","o","m","e","r","s">>
colMarketingSpend == <<"m","a","r","k","e","t","i","n","g","_","s","p","e","n","d">>
colLeadsGenerated == <<"l","e","a","d","s","_","g","e","n","e","r","a","t","e","d">>
colDealsClosed == <<"d","e","a","l","s","_","c","l","o","s","e","d">>

colOrderDate == <<"o","r","d","e","r","_","d","a","t","e">>
colDateCap   == <<"D","a","t","e">>
colNotes     == <<"n","o","t","e","s">>
colSalesRegion == <<"S","a","l","e","s","_","R","e","g","i","o","n">>
colItemCategory == <<"i","t","e","m","_","c","a","t","e","g","o","r","y">>
colCampaignName == <<"c","a","m","p","a","i","g","n","_","n","a","m","e">>
colId        == <<"i","d">>
colMonthCap  == <<"M","o","n","t","h">>

\* ------------------------------------------------------------ cell texts
\* int(text) for the cell texts pandas reads as numbers
NumTable == ("0" :> 0) @@ ("1" :> 1) @@ ("2" :> 2) @@ ("3" :> 3) @@ ("4" :> 4)
            @@ ("5" :> 5) @@ ("7" :> 7) @@ ("10" :> 10) @@ ("30" :> 30)
            @@ ("100" :> 100) @@ ("200" :> 200)

IsNumText(s) == s \in DOMAIN NumTable
Num(s) == NumTable[s]

\* str(pd.to_datetime(text).date()) for the cell texts that parse as dates;
\* any other text makes pd.to_datetime raise ValueError.  The date-like columns
\* of the input files hold text, never numbers.
DateTable == ("2024-01" :> "2024-01-01") @@ ("2024-02" :> "2024-02-01")
             @@ ("2024-03" :> "2024-03-01")

\* the non-numeric texts in ascending (code point) order
StrOrder == << "2024-01", "2024-01-01", "2024-02", "2024-02-01", "2024-03",
               "2024-03-01", "Atlas", "Autumn", "Books", "East", "Kite",
               "Spring", "Toys", "West", "late", "ok", "soon" >>

Rank(s) == CHOOSE i \in 1..Len(StrOrder) : StrOrder[i] = s

\* a < b for two values of one column of the given dtype
ValueLess(dtype, a, b) ==
    IF dtype = "int64" THEN Num(a) < Num(b) ELSE Rank(a) < Rank(b)

\* ------------------------------------------------------------- input files
\* Two kinds of data row; the text a row of that kind has under each column.
\* The metric columns (revenue, customers, marketing_spend, leads_generated,
\* deals_closed) hold non-negative whole numbers in every input file.
RowKinds == {"feb", "jan"}

CellText(col, kind) ==
    CASE col = kwMonth \/ col = colOrderDate \/ col = colMonthCap ->
                                (IF kind = "feb" THEN "2024-02" ELSE "2024-01")
      [] col = colDateCap        -> (IF kind = "feb" THEN "2024-03" ELSE "soon")
      [] col = colRevenue        -> (IF kind = "feb" THEN "200" ELSE "100")
      [] col = colCustomers      -> (IF kind = "feb" THEN "5" ELSE "3")
      [] col = colMarketingSpend -> (IF kind = "feb" THEN "0" ELSE "30")
      [] col = colLeadsGenerated -> (IF kind = "feb" THEN "10" ELSE "7")
      [] col = colDealsClosed    -> (IF kind = "feb" THEN "4" ELSE "2")
      [] col = colSalesRegion \/ col = kwRegion ->
                                (IF kind = "feb" THEN "West" ELSE "East")
      [] col = colItemCategory   -> (IF kind = "feb" THEN "Toys" ELSE "Books")
      [] col = kwProduct         -> (IF kind = "feb" THEN "Kite" ELSE "Atlas")
      [] col = colCampaignName \/ col = kwCampaign ->
                                (IF kind = "feb" THEN "Spring" ELSE "Autumn")
      [] col = colNotes          -> (IF kind = "feb" THEN "ok" ELSE "late")
      [] col = colId             -> (IF kind = "feb" THEN "1" ELSE "2")

Headers == {
    <<kwMonth, colRevenue, colCustomers, colMarketingSpend>>,
    <<colOrderDate, colRevenue, colCustomers, colMarketingSpend>>,
    <<colNotes, colDateCap, kwMonth, colCustomers>>,
    <<colSalesRegion, colItemCategory, kwProduct, colRevenue>>,
    <<colCustomers, colDealsClosed, colLeadsGenerated, colCampaignName>>,
    <<colId, kwRegion, kwCampaign>> }

RECURSIVE SeqsUpTo(_, _)
\* the sequences over S of length at most n
SeqsUpTo(S, n) ==
    IF n = 0 THEN {<<>>}
    ELSE LET shorter == SeqsUpTo(S, n - 1)
         IN  shorter \cup {Append(q, x) : q \in {r \in shorter : Len(r) = n - 1}, x \in S}

\* the lines of a CSV file: the header, then one line per data row
CsvLines(header, kinds) ==
    <<header>> \o [i \in 1..Len(kinds) |->
                     [j \in 1..Len(header) |-> CellText(header[j], kinds[i])]]

\* MAX_FILE_SIZE = 10 * 1024 * 1024
MAX_FILE_SIZE == 10485760

\* the lines of sample_data/sales_data.csv
SampleLines == CsvLines(<<kwMonth, kwRegion, kwProduct, kwCampaign, colRevenue,
                          colCustomers, colMarketingSpend, colLeadsGenerated,
                          colDealsClosed>>, <<"jan", "feb">>)

\* Uploaded bytes: their length, whether they decode as text, and their lines.
\* nbytes of an ordinary file is nominal (1): the code only compares it with
\* MAX_FILE_SIZE.
Contents ==
    {[nbytes |-> 1, decodable |-> TRUE, lines |-> CsvLines(h, k)] :
        h \in Headers, k \in SeqsUpTo(RowKinds, MaxRows)}
    \cup {[nbytes |-> 0, decodable |-> TRUE, lines |-> <<>>],
          [nbytes |-> 1, decodable |-> FALSE, lines |-> <<>>],
          [nbytes |-> MAX_FILE_SIZE, decodable |-> TRUE,
           lines |-> CsvLines(<<colId, kwRegion, kwCampaign>>, <<"jan">>)],
          [nbytes |-> MAX_FILE_SIZE + 1, decodable |-> TRUE,
           lines |-> CsvLines(<<colId, kwRegion, kwCampaign>>, <<"feb">>)]}

fnCsv   == <<"a",".","c","s","v">>
fnTxt   == <<"a",".","t","x","t">>
fnNoDot == <<"a","c","s","v">>
Filenames == {fnCsv, fnTxt, fnNoDot, <<>>}

\* ------------------------------------------------------------- DataFrame
None == [none |-> TRUE]

\* pd.read_csv: [ok, df]; the first line is the header, a column is int64
\* when every cell of it reads as a number, object otherwise
ReadCsv(c) ==
    IF ~c.decodable \/ c.lines = <<>>
    THEN [ok |-> FALSE, df |-> None]
    ELSE LET header == Head(c.lines)
             rows   == Tail(c.lines)
         IN  [ok |-> TRUE,
              df |-> [columns |-> header,
                      dtypes  |-> [j \in 1..Len(header) |->
                                     IF rows # <<>> /\ \A i \in 1..Len(rows) : IsNumText(rows[i][j])
                                     THEN "int64" ELSE "object"],
                      rows    |-> rows]]

\* df.empty taken as `len(df.columns) == 0`
DfEmptyIfNoColumns(df) == Len(df.columns) = 0

\* df.empty
DfEmpty(df) == Len(df.rows) = 0 \/ Len(df.columns) = 0

\* `name in df.columns`
HasCol(df, name) == \E j \in 1..Len(df.columns) : df.columns[j] = name

ColIdx(df, name) == CHOOSE j \in 1..Len(df.columns) : df.columns[j] = name

\* df[name] as a sequence of cell texts
Column(df, name) == [i \in 1..Len(df.rows) |-> df.rows[i][ColIdx(df, name)]]

Dtype(df, name) == df.dtypes[ColIdx(df, name)]

RECURSIVE SumSeq(_)
SumSeq(s) == IF s = <<>> THEN 0 ELSE Head(s) + SumSeq(Tail(s))

\* df[name].sum() of a numeric column
ColSum(df, name) == SumSeq([i \in 1..Len(df.rows) |-> Num(Column(df, name)[i])])

\* round(a / b, 2) in hundredths, b > 0, ties to even
Round2(a, b) ==
    LET q == (100 * a) \div b
        r == (100 * a) % b
    IN  IF 2 * r > b \/ (2 * r = b /\ q % 2 = 1) THEN q + 1 ELSE q

\* -------------------------------------------------------- column inference
\* next(gen, None) over the generator's items in order: <<>> for None, <<c>>
\* for the first item c
NextOrNone(items) == IF items = <<>> THEN <<>> ELSE <<Head(items)>>

IsDateName(c)     == Lower(c) \in {kwMonth, kwDate}
IsDateLike(c)     == Contains(Lower(c), kwDate) \/ Contains(Lower(c), kwMonth)
IsCategoryName(c) == Contains(Lower(c), kwCategory) \/ Contains(Lower(c), kwProduct)
IsRegionName(c)   == Contains(Lower(c), kwRegion)
IsCampaignName(c) == Contains(Lower(c), kwCampaign)

\* _find_date_col
_find_date_col(df) == NextOrNone(SelectSeq(df.columns, IsDateName))

RECURSIVE DateRangeOfFirstParsing(_, _)
\* the date range of the first of `cols` whose cells all parse, None if none does
DateRangeOfFirstParsing(df, cols) ==
    IF cols = <<>> THEN None
    ELSE LET cells == Column(df, Head(cols))
         IN  IF \E i \in 1..Len(cells) : cells[i] \notin DOMAIN DateTable
             THEN DateRangeOfFirstParsing(df, Tail(cols))
             ELSE LET dates == {DateTable[cells[i]] : i \in 1..Len(cells)}
                  IN  [column |-> Head(cols),
                       min |-> CHOOSE d \in dates : \A e \in dates : Rank(d) <= Rank(e),
                       max |-> CHOOSE d \in dates : \A e \in dates : Rank(d) >= Rank(e)]

\* _detect_date_range without its `break`: a column that fails to parse is
\* skipped and the next date-like column is tried
_detect_date_range_trying_next(df) ==
    DateRangeOfFirstParsing(df, SelectSeq(df.columns, IsDateLike))

\* _detect_date_range: only the first date-like column is tried
_detect_date_range(df) ==
    LET found == NextOrNone(SelectSeq(df.columns, IsDateLike))
    IN  IF found = <<>> THEN None
        ELSE LET col   == found[1]
                 cells == Column(df, col)
             IN  IF \E i \in 1..Len(cells) : cells[i] \notin DOMAIN DateTable
                 THEN None
                 ELSE LET dates == {DateTable[cells[i]] : i \in 1..Len(cells)}
                      IN  [column |-> col,
                           min |-> CHOOSE d \in dates : \A e \in dates : Rank(d) <= Rank(e),
                           max |-> CHOOSE d \in dates : \A e \in dates : Rank(d) >= Rank(e)]

\* ------------------------------------------------------------------ summary
\* df.select_dtypes(include="number").columns.tolist()
NumericCols(df) == SelectSeq(df.columns, LAMBDA c : Dtype(df, c) = "int64")

\* mean, min, max and sum of one numeric column; mean in hundredths
ColStats(df, col) ==
    LET vals == {Num(Column(df, col)[i]) : i \in 1..Len(df.rows)}
    IN  [column |-> col,
         mean |-> Round2(ColSum(df, col), Len(df.rows)),
         min  |-> CHOOSE v \in vals : \A w \in vals : v <= w,
         max  |-> CHOOSE v \in vals : \A w \in vals : v >= w,
         sum  |-> ColSum(df, col)]

\* compute_summary reading the rows through a cursor kept between calls: a
\* call that follows a summary finds the rows already consumed
compute_summary_consuming(df) ==
    LET numeric_cols == NumericCols(df)
    IN  [row_count       |-> IF resp.op = "get_summary" /\ resp.status = 200
                             THEN 0 ELSE Len(df.rows),
         column_count    |-> Len(df.columns),
         columns         |-> df.columns,
         numeric_columns |-> numeric_cols,
         date_range      |-> _detect_date_range(df),
         summary_stats   |-> [k \in 1..Len(numeric_cols) |-> ColStats(df, numeric_cols[k])]]

\* compute_summary
compute_summary(df) ==
    LET numeric_cols == NumericCols(df)
    IN  [row_count       |-> Len(df.rows),
         column_count    |-> Len(df.columns),
         columns         |-> df.columns,
         numeric_columns |-> numeric_cols,
         date_range      |-> _detect_date_range(df),
         summary_stats   |-> [k \in 1..Len(numeric_cols) |-> ColStats(df, numeric_cols[k])]]

\* ---------------------------------------------------------------- pagination
\* the index a slice bound i denotes in a sequence of n items (df.iloc[a:b])
SliceIndex(i, n) == IF i < 0 THEN Max(n + i, 0) ELSE Min(i, n)

\* df.iloc[start:end]
ILoc(rows, start, end) ==
    LET lo == SliceIndex(start, Len(rows))
        hi == SliceIndex(end, Len(rows))
    IN  IF lo >= hi THEN <<>> ELSE SubSeq(rows, lo + 1, hi)

\* get_raw_data with 0-based pages: start = page * page_size
get_raw_data_zero_based(df, page, page_size) ==
    LET start  == page * page_size
        end    == start + page_size
        subset == ILoc(df.rows, start, end)
    IN  IF page_size = 0
        THEN [ok |-> FALSE, error |-> "ZeroDivisionError"]
        ELSE [ok |-> TRUE,
              value |-> [data        |-> subset,
                         total_rows  |-> Len(df.rows),
                         page        |-> page,
                         page_size   |-> page_size,
                         total_pages |-> PyFloorDiv(Len(df.rows) + page_size - 1, page_size)]]

\* get_raw_data taking the totals from current_df again after the slice
get_raw_data_rereading(df, page, page_size) ==
    LET start  == (page - 1) * page_size
        end    == start + page_size
        subset == ILoc(df.rows, start, end)
    IN  IF page_size = 0
        THEN [ok |-> FALSE, error |-> "ZeroDivisionError"]
        ELSE [ok |-> TRUE,
              value |-> [data        |-> subset,
                         total_rows  |-> Len(current_df.rows),
                         page        |-> page,
                         page_size   |-> page_size,
                         total_pages |-> PyFloorDiv(Len(current_df.rows) + page_size - 1, page_size)]]

\* data_service.get_raw_data, given the DataFrame get_current_df() returned
get_raw_data(df, page, page_size) ==
    LET start  == (page - 1) * page_size
        end    == start + page_size
        subset == ILoc(df.rows, start, end)
    IN  IF page_size = 0
        THEN [ok |-> FALSE, error |-> "ZeroDivisionError"]
        ELSE [ok |-> TRUE,
              value |-> [data        |-> subset,
                         total_rows  |-> Len(df.rows),
                         page        |-> page,
                         page_size   |-> page_size,
                         total_pages |-> PyFloorDiv(Len(df.rows) + page_size - 1, page_size)]]

\* ------------------------------------------------------------ aggregations
RECURSIVE SortKeys(_, _)
\* the values of S in ascending order
SortKeys(S, dtype) ==
    IF S = {} THEN <<>>
    ELSE LET m == CHOOSE a \in S : \A b \in S : ~ValueLess(dtype, b, a)
         IN  <<m>> \o SortKeys(S \ {m}, dtype)

\* df.groupby(col): the distinct values of col, ascending
GroupKeys(df, col) ==
    SortKeys({Column(df, col)[i] : i \in 1..Len(df.rows)}, Dtype(df, col))

\* the sum of column `name` over the rows whose `col` is `key`
GroupSum(df, col, key, name) ==
    SumSeq([i \in 1..Len(df.rows) |->
              IF Column(df, col)[i] = key THEN Num(Column(df, name)[i]) ELSE 0])

Ok(v)  == [ok |-> TRUE, value |-> v]
Err(e) == [ok |-> FALSE, error |-> e]

\* get_chart_data_revenue_trend
get_chart_data_revenue_trend(df) ==
    LET date_col == _find_date_col(df)
    IN  IF date_col = <<>> THEN Ok(<<>>)
        ELSE IF ~HasCol(df, colRevenue) \/ ~HasCol(df, colCustomers)
        THEN Err("KeyError")
        ELSE LET keys == GroupKeys(df, date_col[1])
             IN  Ok([g \in 1..Len(keys) |->
                       [month     |-> keys[g],
                        revenue   |-> GroupSum(df, date_col[1], keys[g], colRevenue),
                        customers |-> GroupSum(df, date_col[1], keys[g], colCustomers)]])

\* get_chart_data_by_category
get_chart_data_by_category(df) ==
    LET cat_col == NextOrNone(SelectSeq(df.columns, IsCategoryName))
    IN  IF cat_col = <<>> \/ ~HasCol(df, colRevenue) THEN Ok(<<>>)
        ELSE LET keys == GroupKeys(df, cat_col[1])
             IN  Ok([g \in 1..Len(keys) |->
                       [category |-> keys[g],
                        revenue  |-> GroupSum(df, cat_col[1], keys[g], colRevenue)]])

\* get_chart_data_by_region
get_chart_data_by_region(df) ==
    LET region_col == NextOrNone(SelectSeq(df.columns, IsRegionName))
    IN  IF region_col = <<>> \/ ~HasCol(df, colRevenue) THEN Ok(<<>>)
        ELSE LET keys == GroupKeys(df, region_col[1])
             IN  Ok([g \in 1..Len(keys) |->
                       [region  |-> keys[g],
                        revenue |-> GroupSum(df, region_col[1], keys[g], colRevenue)]])

\* get_chart_data_campaign_performance; a record maps each output field to its value
get_chart_data_campaign_performance(df) ==
    LET campaign_col == NextOrNone(SelectSeq(df.columns, IsCampaignName))
        agg_cols == SelectSeq(<<colRevenue, colMarketingSpend, colLeadsGenerated>>,
                              LAMBDA c : HasCol(df, c))
    IN  IF campaign_col = <<>> THEN Ok(<<>>)
        ELSE IF agg_cols = <<>> THEN Ok(<<>>)
        ELSE LET keys == GroupKeys(df, campaign_col[1])
             IN  Ok([g \in 1..Len(keys) |->
                       [campaign |-> keys[g],
                        sums |-> [k \in 1..Len(agg_cols) |->
                                    [field |-> agg_cols[k],
                                     value |-> GroupSum(df, campaign_col[1], keys[g], agg_cols[k])]]]])

\* the funnel built by walking df.columns instead of the fixed list of stages
get_chart_data_conversion_funnel_in_column_order(df) ==
    LET label(c) == CASE c = colLeadsGenerated -> "Leads"
                      [] c = colDealsClosed    -> "Deals Closed"
                      [] c = colCustomers      -> "Customers"
        present  == SelectSeq(df.columns,
                       LAMBDA c : c \in {colLeadsGenerated, colDealsClosed, colCustomers})
    IN  Ok([k \in 1..Len(present) |->
              [stage |-> label(present[k]), value |-> ColSum(df, present[k])]])

\* get_chart_data_conversion_funnel
get_chart_data_conversion_funnel(df) ==
    LET pairs   == << [label |-> "Leads",        col |-> colLeadsGenerated],
                      [label |-> "Deals Closed", col |-> colDealsClosed],
                      [label |-> "Customers",    col |-> colCustomers] >>
        present == SelectSeq(pairs, LAMBDA p : HasCol(df, p.col))
    IN  Ok([k \in 1..Len(present) |->
              [stage |-> present[k].label, value |-> ColSum(df, present[k].col)]])

\* the division done number by number, as Python divides: a zero divisor raises
RoiOfScalar(revenue, spend) ==
    IF spend = 0
    THEN Err("ZeroDivisionError")
    ELSE Ok([hundredths |-> IF spend > 0 THEN Round2(revenue, spend)
                            ELSE Round2(0 - revenue, 0 - spend)])

\* grouped["revenue"] / grouped["marketing_spend"], rounded to 2 places (in
\* hundredths): float division gives inf or nan for a zero divisor and raises
\* nothing
RoiOf(revenue, spend) ==
    IF spend = 0
    THEN Ok(IF revenue = 0 THEN [nan |-> TRUE] ELSE [inf |-> TRUE, positive |-> revenue > 0])
    ELSE Ok([hundredths |-> IF spend > 0 THEN Round2(revenue, spend)
                            ELSE Round2(0 - revenue, 0 - spend)])

\* get_chart_data_marketing_roi; an exception of the division would propagate
get_chart_data_marketing_roi(df) ==
    LET date_col == _find_date_col(df)
    IN  IF date_col = <<>> \/ ~HasCol(df, colRevenue) \/ ~HasCol(df, colMarketingSpend)
        THEN Ok(<<>>)
        ELSE LET keys == GroupKeys(df, date_col[1])
                 rois == [g \in 1..Len(keys) |->
                            RoiOf(GroupSum(df, date_col[1], keys[g], colRevenue),
                                  GroupSum(df, date_col[1], keys[g], colMarketingSpend))]
             IN  IF \E g \in 1..Len(keys) : ~rois[g].ok
                 THEN Err(rois[CHOOSE g \in 1..Len(keys) : ~rois[g].ok].error)
                 ELSE Ok([g \in 1..Len(keys) |->
                            [month           |-> keys[g],
                             revenue         |-> GroupSum(df, date_col[1], keys[g], colRevenue),
                             marketing_spend |-> GroupSum(df, date_col[1], keys[g], colMarketingSpend),
                             roi             |-> rois[g].value]])

\* CHART_HANDLERS.keys(), in insertion order
ChartTypes == << "revenue-trend", "by-category", "by-region",
                 "campaign-performance", "conversion-funnel", "marketing-roi" >>

\* CHART_HANDLERS[chart_type](df)
CHART_HANDLERS(chart_type, df) ==
    CASE chart_type = "revenue-trend"        -> get_chart_data_revenue_trend(df)
      [] chart_type = "by-category"          -> get_chart_data_by_category(df)
      [] chart_type = "by-region"            -> get_chart_data_by_region(df)
      [] chart_type = "campaign-performance" -> get_chart_data_campaign_performance(df)
      [] chart_type = "conversion-funnel"    -> get_chart_data_conversion_funnel(df)
      [] chart_type = "marketing-roi"        -> get_chart_data_marketing_roi(df)

\* ---------------------------------------------------------------- the store
\* get_current_df handing out an empty DataFrame when nothing is loaded
get_current_df_or_empty(df) ==
    IF df = None THEN Ok([columns |-> <<>>, dtypes |-> <<>>, rows |-> <<>>]) ELSE Ok(df)

\* get_current_df: RuntimeError when nothing is loaded
get_current_df(df) == IF df = None THEN Err("RuntimeError") ELSE Ok(df)

\* CHART_HANDLERS.get(chart_type, <a default handler>)
HandlerForWithDefault(chart_type) ==
    IF \E k \in 1..Len(ChartTypes) : ChartTypes[k] = chart_type
    THEN <<chart_type>> ELSE <<"by-region">>

\* CHART_HANDLERS.get(chart_type): <<>> for None
HandlerFor(chart_type) ==
    IF \E k \in 1..Len(ChartTypes) : ChartTypes[k] = chart_type
    THEN <<chart_type>> ELSE <<>>

\* the extension test as `"csv" in filename`
FilenameAcceptedIfCsvAnywhere(filename) ==
    filename # <<>> /\ Contains(filename, <<"c","s","v">>)

\* the extension test of routers/data.py upload_csv
csvSuffix == <<".","c","s","v">>
FilenameAccepted(filename) == filename # <<>> /\ EndsWith(filename, csvSuffix)

HEAD_ROWS == 10
TAIL_ROWS == 5

\* ai_service.build_data_context: the parts of the text (of df.describe(), the
\* count, mean, min and max of each numeric column)
build_data_context(df) ==
    [rows     |-> Len(df.rows),
     ncolumns |-> Len(df.columns),
     columns  |-> df.columns,
     describe |-> [k \in 1..Len(NumericCols(df)) |-> ColStats(df, NumericCols(df)[k])],
     head     |-> SubSeq(df.rows, 1, Min(HEAD_ROWS, Len(df.rows))),
     tail     |-> SubSeq(df.rows, Max(1, Len(df.rows) - TAIL_ROWS + 1), Len(df.rows))]

\* --------------------------------------------------------------- responses
\* What a route function returns or raises: the status FastAPI gives it (an
\* exception no handler catches is a 500), the error, and the returned model.
\* The framework's JSON encoding of the returned model is not part of it.
Response(op, req, status, error, body, stages, llm) ==
    [op |-> op, req |-> req, status |-> status, error |-> error, body |-> body,
     stages |-> stages, llm_called |-> llm]

NoDataLoaded(op, req) ==
    Response(op, req, 404, "NoDataLoaded", None, <<>>, FALSE)

\* What a load's input looks like from outside: its data rows (header
\* excluded) and its header fields.
Shape(lines) == [data_rows |-> Len(lines) - 1, header_fields |-> Len(lines[1])]

\* The history variable is kept only in behaviours that start with it at None.
NotTracked == [untracked |-> TRUE]
Track(shape) == IF last_ok = NotTracked THEN NotTracked ELSE shape

\* Settings.max_file_size_bytes = 10 * 1024 * 1024 unless the environment
\* overrides it
DEFAULT_MAX_FILE_SIZE_BYTES == 10485760

DefaultSettings == [max_file_size_bytes |-> DEFAULT_MAX_FILE_SIZE_BYTES]

\* the first get_summary response since the last load request
TrackSummary(r) ==
    IF first_summary = NotTracked THEN NotTracked
    ELSE IF first_summary = None
    THEN [status |-> r.status, body |-> r.body, calls |-> 1]
    ELSE [first_summary EXCEPT !.calls = 2]

ForgetSummary == IF first_summary = NotTracked THEN NotTracked ELSE None

\* The requests that may run concurrently, in the order they arrive.
ThreadOrder == <<"t1", "t2", "t3">>
Threads == {ThreadOrder[k] : k \in 1..Len(ThreadOrder)}

\* A request: its operation and arguments, where it is in the code (pc), its
\* local variable df and its result.  History: `stored` is the frame a load
\* assigned to the store, `seq` the position of that assignment among all
\* assignments, `seen` the values the store had while the request ran.
Request(op, arg, pc, df, stored, seq, seen, result) ==
    [op |-> op, arg |-> arg, pc |-> pc, df |-> df, stored |-> stored,
     seq |-> seq, seen |-> seen, result |-> result]

Idle == Request("none", None, "idle", None, None, 0, {}, None)

\* main.py as imported: current_df = None, nothing uploaded, nothing served
MainStart ==
    [current_df |-> None, upload_dir |-> {},
     resp |-> Response("none", None, 0, "", None, <<>>, FALSE)]

Init ==
    /\ current_df = None
    /\ upload_dir = {}
    /\ resp = Response("none", None, 0, "", None, <<>>, FALSE)
    /\ last_ok = NotTracked
    /\ settings = DefaultSettings
    /\ first_summary = NotTracked
    /\ reqs = [t \in Threads |-> Idle]
    /\ main = MainStart

\* ---------------------------------------------------------------- handlers
\* GET /sample: routers/data.py load_sample_data -> data_service.load_sample_data.
\* Either the sample file is read, stored and summarised, or pd.read_csv
\* raises and the store is not assigned.
LoadSample ==
    LET read == ReadCsv([nbytes |-> 1, decodable |-> TRUE, lines |-> SampleLines])
    IN  /\ \/ /\ current_df' = read.df
              /\ resp' = Response("load_sample", None, 200, "",
                                  compute_summary(read.df), <<>>, FALSE)
              /\ last_ok' = Track(Shape(SampleLines))
           \/ /\ resp' = Response("load_sample", None, 500, "FileNotFoundError",
                                  None, <<>>, FALSE)
              /\ UNCHANGED <<current_df, last_ok>>
        /\ first_summary' = ForgetSummary
        /\ UNCHANGED <<upload_dir, settings, reqs, main>>

\* An upload request whose bytes were read: the filename, and of the bytes
\* their length, whether they decode as text, and how many lines they hold.
UploadRequest(filename, contents) ==
    [filename |-> filename, nbytes |-> contents.nbytes,
     decodable |-> contents.decodable, nlines |-> Len(contents.lines)]

\* upload_csv assigning the parsed frame to current_df before the emptiness
\* test (`current_df = pd.read_csv(...)`, then `if current_df.empty`)
UploadCsvStoringBeforeEmptyTest(filename) ==
    LET Reject(req, error, stages) ==
            /\ resp' = Response("upload", req, 400, error, None, stages, FALSE)
            /\ UNCHANGED <<upload_dir, last_ok>>
    IN  /\ first_summary' = ForgetSummary
        /\ UNCHANGED <<settings, reqs, main>>
        /\ IF ~FilenameAccepted(filename)
           THEN /\ Reject([filename |-> filename], "UnsupportedFormat", <<"extension">>)
                /\ UNCHANGED current_df
           ELSE \E contents \in Contents :
                  LET read == ReadCsv(contents)
                      req  == UploadRequest(filename, contents)
                  IN  IF contents.nbytes > MAX_FILE_SIZE
                      THEN /\ Reject(req, "FileTooLarge", <<"extension", "read", "size">>)
                           /\ UNCHANGED current_df
                      ELSE IF ~read.ok
                      THEN /\ Reject(req, "ParseError", <<"extension", "read", "size", "parse">>)
                           /\ UNCHANGED current_df
                      ELSE IF DfEmpty(read.df)
                      THEN /\ Reject(req, "EmptyDataset", <<"extension", "read", "size", "parse">>)
                           /\ current_df' = read.df
                      ELSE /\ current_df' = read.df
                           /\ upload_dir' = upload_dir \cup {filename}
                           /\ resp' = Response("upload", req, 200, "",
                                 [message  |-> "File uploaded successfully",
                                  filename |-> filename,
                                  rows     |-> Len(read.df.rows),
                                  columns  |-> Len(read.df.columns)],
                                 <<"extension", "read", "size", "parse", "store", "persist">>,
                                 FALSE)
                           /\ last_ok' = Track(Shape(contents.lines))

\* POST /upload: routers/data.py upload_csv -> data_service.load_csv_bytes.
\* The bytes are what `await file.read()` delivers.  After the store is
\* assigned, mkdir and write_bytes either succeed or raise OSError, which no
\* handler catches.  stages lists what the handler did, in order.
UploadCsv(filename) ==
    LET Reject(req, error, stages) ==
            /\ resp' = Response("upload", req, 400, error, None, stages, FALSE)
            /\ UNCHANGED <<current_df, upload_dir, last_ok>>
    IN  /\ first_summary' = ForgetSummary
        /\ UNCHANGED <<settings, reqs, main>>
        /\ IF ~FilenameAccepted(filename)
           THEN Reject([filename |-> filename], "UnsupportedFormat", <<"extension">>)
           ELSE \E contents \in Contents :
                  LET read == ReadCsv(contents)
                      req  == UploadRequest(filename, contents)
                  IN  IF contents.nbytes > MAX_FILE_SIZE
                      THEN Reject(req, "FileTooLarge", <<"extension", "read", "size">>)
                      ELSE IF ~read.ok
                      THEN Reject(req, "ParseError", <<"extension", "read", "size", "parse">>)
                      ELSE IF DfEmpty(read.df)
                      THEN Reject(req, "EmptyDataset", <<"extension", "read", "size", "parse">>)
                      ELSE /\ current_df' = read.df
                           /\ \/ /\ upload_dir' = upload_dir \cup {filename}
                                 /\ resp' = Response("upload", req, 200, "",
                                       [message  |-> "File uploaded successfully",
                                        filename |-> filename,
                                        rows     |-> Len(read.df.rows),
                                        columns  |-> Len(read.df.columns)],
                                       <<"extension", "read", "size", "parse", "store", "persist">>,
                                       FALSE)
                                 /\ last_ok' = Track(Shape(contents.lines))
                              \/ /\ resp' = Response("upload", req, 500, "OSError", None,
                                       <<"extension", "read", "size", "parse", "store">>, FALSE)
                                 /\ UNCHANGED <<upload_dir, last_ok>>

\* GET /data: routers/data.py get_data_summary
GetDataSummary ==
    LET got == get_current_df(current_df)
    IN  /\ resp' = IF ~got.ok THEN NoDataLoaded("get_summary", None)
                   ELSE Response("get_summary", None, 200, "",
                                 compute_summary(got.value), <<>>, FALSE)
        /\ first_summary' = TrackSummary(resp')
        /\ UNCHANGED <<current_df, upload_dir, last_ok, settings, reqs, main>>

\* GET /data/raw: routers/data.py get_raw_data
GetRawData(page, page_size) ==
    LET req == [page |-> page, page_size |-> page_size]
        got == get_current_df(current_df)
        res == get_raw_data(got.value, page, page_size)
    IN  /\ resp' = IF ~got.ok THEN NoDataLoaded("get_raw_data", req)
                   ELSE IF ~res.ok
                   THEN Response("get_raw_data", req, 500, res.error, None, <<>>, FALSE)
                   ELSE Response("get_raw_data", req, 200, "", res.value, <<>>, FALSE)
        /\ UNCHANGED <<current_df, upload_dir, last_ok, settings, first_summary, reqs, main>>

colRoi == <<"r","o","i">>

\* get_chart_data with marketing-roi assigning its roi column to df itself
\* (df["roi"] = ...) instead of to the grouped frame
GetChartDataAddingRoi(chart_type) ==
    LET req     == [chart_type |-> chart_type]
        got     == get_current_df(current_df)
        handler == HandlerFor(chart_type)
        res     == CHART_HANDLERS(handler[1], got.value)
    IN  /\ resp' = IF ~got.ok THEN NoDataLoaded("get_chart", req)
                   ELSE IF handler = <<>>
                   THEN Response("get_chart", req, 400, "UnknownChartType",
                                 [available |-> ChartTypes], <<>>, FALSE)
                   ELSE IF ~res.ok
                   THEN Response("get_chart", req, 500, res.error, None, <<>>, FALSE)
                   ELSE Response("get_chart", req, 200, "",
                                 [chart_type |-> chart_type, data |-> res.value],
                                 <<>>, FALSE)
        /\ current_df' =
              IF got.ok /\ chart_type = "marketing-roi" /\ ~HasCol(current_df, colRoi)
                        /\ res.ok /\ res.value # <<>>
              THEN [columns |-> Append(current_df.columns, colRoi),
                    dtypes  |-> Append(current_df.dtypes, "object"),
                    rows    |-> [i \in 1..Len(current_df.rows) |->
                                   Append(current_df.rows[i], "ok")]]
              ELSE current_df
        /\ UNCHANGED <<upload_dir, last_ok, settings, first_summary, reqs, main>>

\* GET /charts/{chart_type}: routers/charts.py get_chart_data
GetChartData(chart_type) ==
    LET req     == [chart_type |-> chart_type]
        got     == get_current_df(current_df)
        handler == HandlerFor(chart_type)
        res     == CHART_HANDLERS(handler[1], got.value)
    IN  /\ resp' = IF ~got.ok THEN NoDataLoaded("get_chart", req)
                   ELSE IF handler = <<>>
                   THEN Response("get_chart", req, 400, "UnknownChartType",
                                 [available |-> ChartTypes], <<>>, FALSE)
                   ELSE IF ~res.ok
                   THEN Response("get_chart", req, 500, res.error, None, <<>>, FALSE)
                   ELSE Response("get_chart", req, 200, "",
                                 [chart_type |-> chart_type, data |-> res.value],
                                 <<>>, FALSE)
        /\ UNCHANGED <<current_df, upload_dir, last_ok, settings, first_summary, reqs, main>>

\* POST /query: routers/query.py query_data -> ai_service.ask_claude.
\* `outcome` is what the language-model call does.
QueryData(outcome) ==
    LET got == get_current_df(current_df)
        ctx == [context |-> build_data_context(got.value)]
    IN  /\ resp' = IF ~got.ok THEN NoDataLoaded("query", None)
                   ELSE CASE outcome = "answer" ->
                               Response("query", None, 200, "", ctx, <<>>, TRUE)
                          [] outcome = "auth" ->
                               Response("query", None, 401, "AuthenticationError", ctx, <<>>, TRUE)
                          [] outcome = "failure" ->
                               Response("query", None, 500, "AIQueryFailed", ctx, <<>>, TRUE)
        /\ UNCHANGED <<current_df, upload_dir, last_ok, settings, first_summary, reqs, main>>

\* -------------------------------------------------------------- the system
Pages == (0 - 1)..MaxPage
ChartIds == {ChartTypes[k] : k \in 1..Len(ChartTypes)} \cup {"not-a-real-type"}
LlmOutcomes == {"answer", "auth", "failure"}

Next ==
    \/ LoadSample
    \/ \E filename \in Filenames : UploadCsv(filename)
    \/ GetDataSummary
    \/ \E page \in Pages, page_size \in Pages : GetRawData(page, page_size)
    \/ \E chart_type \in ChartIds : GetChartData(chart_type)
    \/ \E outcome \in LlmOutcomes : QueryData(outcome)

Spec == Init /\ [][Next]_vars

\* Loads and summaries only, with the history of successful loads kept.
InitHist ==
    /\ current_df = None
    /\ upload_dir = {}
    /\ resp = Response("none", None, 0, "", None, <<>>, FALSE)
    /\ last_ok = None
    /\ settings = DefaultSettings
    /\ first_summary = NotTracked
    /\ reqs = [t \in Threads |-> Idle]
    /\ main = MainStart

NextHist ==
    \/ LoadSample
    \/ \E filename \in Filenames : UploadCsv(filename)
    \/ GetDataSummary

SpecHist == InitHist /\ [][NextHist]_vars

\* Every route, with the history of get_summary responses kept.
InitIdem ==
    /\ current_df = None
    /\ upload_dir = {}
    /\ resp = Response("none", None, 0, "", None, <<>>, FALSE)
    /\ last_ok = NotTracked
    /\ settings = DefaultSettings
    /\ first_summary = None
    /\ reqs = [t \in Threads |-> Idle]
    /\ main = MainStart

SpecIdem == InitIdem /\ [][Next]_vars

\* --------------------------------------------------- concurrent requests
\* The sync routes (load_sample_data, get_data_summary, get_raw_data,
\* get_chart_data) run in worker threads; upload_csv runs on the event loop.
\* A step is what a request does up to and including one access to the
\* module variable current_df; steps of different requests interleave freely,
\* except that load_csv_bytes holds the event loop from its first line to its
\* return, so no other upload runs inside it.
Result(status, error, body) == [status |-> status, error |-> error, body |-> body]

ConcHeader == <<kwMonth, colRevenue, colCustomers, colMarketingSpend>>

\* the uploads of concurrent requests: one data row, or the header alone
ConcContents ==
    {[nbytes |-> 1, decodable |-> TRUE, lines |-> CsvLines(ConcHeader, <<"jan">>)],
     [nbytes |-> 1, decodable |-> TRUE, lines |-> CsvLines(ConcHeader, <<>>)]}

\* the read requests of concurrent requests
ConcReads ==
    {[op |-> "get_summary", arg |-> None],
     [op |-> "get_raw_data", arg |-> [page |-> 1, page_size |-> 1]],
     [op |-> "get_raw_data", arg |-> [page |-> 2, page_size |-> 1]],
     [op |-> "get_chart", arg |-> [chart_type |-> "revenue-trend"]]}

InFlight(r) == r.pc \notin {"idle", "done"}

\* requests arrive in ThreadOrder
MayStart(t) ==
    /\ reqs[t].pc = "idle"
    /\ \A k \in 1..Len(ThreadOrder) :
          ThreadOrder[k] = t => \A j \in 1..(k - 1) : reqs[ThreadOrder[j]].pc # "idle"

\* every request in flight has seen the frame just stored
Witnessed(rs, df) ==
    [u \in Threads |-> IF InFlight(rs[u]) THEN [rs[u] EXCEPT !.seen = @ \cup {df}] ELSE rs[u]]

StoresSoFar == Cardinality({u \in Threads : reqs[u].seq > 0})

ConcFrame == UNCHANGED <<resp, last_ok, settings, first_summary, main>>

\* a read request arrives and get_current_df tests `current_df is None`
StartRead(t, read) ==
    /\ MayStart(t)
    /\ reqs' = [reqs EXCEPT ![t] =
                  IF ~get_current_df(current_df).ok
                  THEN Request(read.op, read.arg, "done", None, None, 0, {current_df},
                               Result(404, "NoDataLoaded", None))
                  ELSE Request(read.op, read.arg, "tested", None, None, 0, {current_df}, None)]
    /\ UNCHANGED <<current_df, upload_dir>>
    /\ ConcFrame

\* get_current_df: `return current_df`, into the caller's local df
FetchDf(t) ==
    /\ reqs[t].pc = "tested"
    /\ reqs' = [reqs EXCEPT ![t].pc = "fetched", ![t].df = current_df]
    /\ UNCHANGED <<current_df, upload_dir>>
    /\ ConcFrame

\* what a read route answers from its local df
ReadResult(op, arg, df) ==
    CASE op = "get_summary" -> Result(200, "", compute_summary(df))
      [] op = "get_raw_data" ->
            LET res == get_raw_data(df, arg.page, arg.page_size)
            IN  IF res.ok THEN Result(200, "", res.value) ELSE Result(500, res.error, None)
      [] op = "get_chart" ->
            LET res == CHART_HANDLERS(arg.chart_type, df)
            IN  IF res.ok THEN Result(200, "", [chart_type |-> arg.chart_type, data |-> res.value])
                ELSE Result(500, res.error, None)

\* the rest of a read route, computed from the local df
ComputeRead(t) ==
    /\ reqs[t].pc = "fetched"
    /\ reqs' = [reqs EXCEPT ![t].pc = "done",
                             ![t].result = ReadResult(reqs[t].op, reqs[t].arg, reqs[t].df)]
    /\ UNCHANGED <<current_df, upload_dir>>
    /\ ConcFrame

\* load_sample_data: `current_df = pd.read_csv(sample_data_path)`, or
\* read_csv raises
StoreSample(t) ==
    LET read == ReadCsv([nbytes |-> 1, decodable |-> TRUE, lines |-> SampleLines])
    IN  /\ MayStart(t)
        /\ \/ /\ current_df' = read.df
              /\ reqs' = [Witnessed(reqs, read.df) EXCEPT ![t] =
                            Request("load_sample", None, "stored", None, read.df,
                                    StoresSoFar + 1, {current_df, read.df}, None)]
           \/ /\ reqs' = [reqs EXCEPT ![t] =
                            Request("load_sample", None, "done", None, None, 0, {current_df},
                                    Result(500, "FileNotFoundError", None))]
              /\ UNCHANGED current_df
        /\ UNCHANGED upload_dir
        /\ ConcFrame

\* load_sample_data: `return compute_summary(current_df)`
ReturnSample(t) ==
    /\ reqs[t].op = "load_sample" /\ reqs[t].pc = "stored"
    /\ reqs' = [reqs EXCEPT ![t].pc = "done",
                             ![t].result = Result(200, "", compute_summary(current_df))]
    /\ UNCHANGED <<current_df, upload_dir>>
    /\ ConcFrame

\* load_csv_bytes up to `current_df = df`, once upload_csv has the bytes
StoreUpload(t, contents) ==
    LET read == ReadCsv(contents)
        Reject(error) ==
            /\ reqs' = [reqs EXCEPT ![t] =
                          Request("upload", None, "done", None, None, 0, {current_df},
                                  Result(400, error, None))]
            /\ UNCHANGED current_df
    IN  /\ MayStart(t)
        /\ \A u \in Threads : ~(reqs[u].op = "upload" /\ reqs[u].pc = "stored")
        /\ IF contents.nbytes > MAX_FILE_SIZE THEN Reject("FileTooLarge")
           ELSE IF ~read.ok THEN Reject("ParseError")
           ELSE IF DfEmpty(read.df) THEN Reject("EmptyDataset")
           ELSE /\ current_df' = read.df
                /\ reqs' = [Witnessed(reqs, read.df) EXCEPT ![t] =
                              Request("upload", None, "stored", read.df, read.df,
                                      StoresSoFar + 1, {current_df, read.df}, None)]
        /\ UNCHANGED upload_dir
        /\ ConcFrame

\* load_csv_bytes from upload_dir.mkdir to its return
ReturnUpload(t) ==
    /\ reqs[t].op = "upload" /\ reqs[t].pc = "stored"
    /\ \/ /\ upload_dir' = upload_dir \cup {fnCsv}
          /\ reqs' = [reqs EXCEPT ![t].pc = "done",
                                   ![t].result = Result(200, "",
                                       [message  |-> "File uploaded successfully",
                                        filename |-> fnCsv,
                                        rows     |-> Len(reqs[t].df.rows),
                                        columns  |-> Len(reqs[t].df.columns)])]
       \/ /\ reqs' = [reqs EXCEPT ![t].pc = "done",
                                   ![t].result = Result(500, "OSError", None)]
          /\ UNCHANGED upload_dir
    /\ UNCHANGED current_df
    /\ ConcFrame

NextConc ==
    \E t \in Threads :
        \/ \E read \in ConcReads : StartRead(t, read)
        \/ FetchDf(t)
        \/ ComputeRead(t)
        \/ StoreSample(t)
        \/ ReturnSample(t)
        \/ \E contents \in ConcContents : StoreUpload(t, contents)
        \/ ReturnUpload(t)

SpecConc == Init /\ [][NextConc]_vars

\* ------------------------------------------- main.py beside the routers
\* A request's effect: the value of the module variable current_df after it,
\* whether it wrote the upload, and what it answered.
Effect(df, wrote, result) == [df |-> df, wrote |-> wrote, result |-> result]

\* routers/data.py load_sample_data -> data_service.load_sample_data
router_load_sample_data(df0, readable) ==
    LET read == ReadCsv([nbytes |-> 1, decodable |-> TRUE, lines |-> SampleLines])
    IN  IF readable
        THEN Effect(read.df, FALSE, Result(200, "", compute_summary(read.df)))
        ELSE Effect(df0, FALSE, Result(500, "FileNotFoundError", None))

\* routers/data.py upload_csv -> data_service.load_csv_bytes
router_upload_csv(df0, filename, contents, writable) ==
    LET read == ReadCsv(contents)
    IN  IF ~FilenameAccepted(filename)
        THEN Effect(df0, FALSE, Result(400, "UnsupportedFormat", None))
        ELSE IF contents.nbytes > MAX_FILE_SIZE
        THEN Effect(df0, FALSE, Result(400, "FileTooLarge", None))
        ELSE IF ~read.ok
        THEN Effect(df0, FALSE, Result(400, "ParseError", None))
        ELSE IF DfEmpty(read.df)
        THEN Effect(df0, FALSE, Result(400, "EmptyDataset", None))
        ELSE IF ~writable
        THEN Effect(read.df, FALSE, Result(500, "OSError", None))
        ELSE Effect(read.df, TRUE,
                    Result(200, "", [message  |-> "File uploaded successfully",
                                     filename |-> filename,
                                     rows     |-> Len(read.df.rows),
                                     columns  |-> Len(read.df.columns)]))

\* the read routes of routers/data.py and routers/charts.py
router_read(df0, op, arg) ==
    IF ~get_current_df(df0).ok
    THEN Effect(df0, FALSE, Result(404, "NoDataLoaded", None))
    ELSE IF op = "get_chart" /\ HandlerFor(arg.chart_type) = <<>>
    THEN Effect(df0, FALSE, Result(400, "UnknownChartType", [available |-> ChartTypes]))
    ELSE Effect(df0, FALSE, ReadResult(op, arg, df0))

\* main.py MAX_FILE_SIZE = 10 * 1024 * 1024
MAIN_MAX_FILE_SIZE == 10485760

\* main.py compute_summary: the date range of the first date-like column; the
\* earliest and latest of no dates at all are NaT
main_date_range(df) ==
    LET found == NextOrNone(SelectSeq(df.columns, IsDateLike))
    IN  IF found = <<>> THEN None
        ELSE LET col   == found[1]
                 cells == Column(df, col)
             IN  IF \E i \in 1..Len(cells) : cells[i] \notin DOMAIN DateTable
                 THEN None
                 ELSE IF cells = <<>>
                 THEN [column |-> col, min |-> "NaT", max |-> "NaT"]
                 ELSE LET dates == {DateTable[cells[i]] : i \in 1..Len(cells)}
                      IN  [column |-> col,
                           min |-> CHOOSE d \in dates : \A e \in dates : Rank(d) <= Rank(e),
                           max |-> CHOOSE d \in dates : \A e \in dates : Rank(d) >= Rank(e)]

\* main.py compute_summary
main_compute_summary(df) ==
    LET numeric_cols == NumericCols(df)
    IN  [row_count       |-> Len(df.rows),
         column_count    |-> Len(df.columns),
         columns         |-> df.columns,
         numeric_columns |-> numeric_cols,
         date_range      |-> main_date_range(df),
         summary_stats   |-> [k \in 1..Len(numeric_cols) |-> ColStats(df, numeric_cols[k])]]

\* main.py get_chart_data_revenue_trend: a first test for a column named
\* exactly "month" or, in any case, "date", then as the service's
main_get_chart_data_revenue_trend(df) ==
    IF ~HasCol(df, kwMonth) /\ ~\E j \in 1..Len(df.columns) : Lower(df.columns[j]) = kwDate
    THEN Ok(<<>>)
    ELSE LET date_col == NextOrNone(SelectSeq(df.columns, IsDateName))
         IN  IF date_col = <<>> THEN Ok(<<>>)
             ELSE IF ~HasCol(df, colRevenue) \/ ~HasCol(df, colCustomers)
             THEN Err("KeyError")
             ELSE LET keys == GroupKeys(df, date_col[1])
                  IN  Ok([g \in 1..Len(keys) |->
                            [month     |-> keys[g],
                             revenue   |-> GroupSum(df, date_col[1], keys[g], colRevenue),
                             customers |-> GroupSum(df, date_col[1], keys[g], colCustomers)]])

\* main.py CHART_HANDLERS[chart_type](df); the five other helpers of main.py
\* are, statement for statement, those of data_service.py
main_CHART_HANDLERS(chart_type, df) ==
    CASE chart_type = "revenue-trend"        -> main_get_chart_data_revenue_trend(df)
      [] chart_type = "by-category"          -> get_chart_data_by_category(df)
      [] chart_type = "by-region"            -> get_chart_data_by_region(df)
      [] chart_type = "campaign-performance" -> get_chart_data_campaign_performance(df)
      [] chart_type = "conversion-funnel"    -> get_chart_data_conversion_funnel(df)
      [] chart_type = "marketing-roi"        -> get_chart_data_marketing_roi(df)

\* main.py load_sample_data
main_load_sample_data(df0, readable) ==
    LET read == ReadCsv([nbytes |-> 1, decodable |-> TRUE, lines |-> SampleLines])
    IN  IF readable
        THEN Effect(read.df, FALSE, Result(200, "", main_compute_summary(read.df)))
        ELSE Effect(df0, FALSE, Result(500, "FileNotFoundError", None))

\* main.py upload_csv: `current_df = pd.read_csv(...)` comes before the test
\* `if current_df.empty`
main_upload_csv(df0, filename, contents, writable) ==
    LET read == ReadCsv(contents)
    IN  IF ~FilenameAccepted(filename)
        THEN Effect(df0, FALSE, Result(400, "UnsupportedFormat", None))
        ELSE IF contents.nbytes > MAIN_MAX_FILE_SIZE
        THEN Effect(df0, FALSE, Result(400, "FileTooLarge", None))
        ELSE IF ~read.ok
        THEN Effect(df0, FALSE, Result(400, "ParseError", None))
        ELSE IF DfEmpty(read.df)
        THEN Effect(read.df, FALSE, Result(400, "EmptyDataset", None))
        ELSE IF ~writable
        THEN Effect(read.df, FALSE, Result(500, "OSError", None))
        ELSE Effect(read.df, TRUE,
                    Result(200, "", [message  |-> "File uploaded successfully",
                                     filename |-> filename,
                                     rows     |-> Len(read.df.rows),
                                     columns  |-> Len(read.df.columns)]))

\* main.py get_raw_data, from the frame in current_df
main_get_raw_data(df, page, page_size) ==
    LET start  == (page - 1) * page_size
        end    == start + page_size
        subset == ILoc(df.rows, start, end)
    IN  IF page_size = 0
        THEN Err("ZeroDivisionError")
        ELSE Ok([data        |-> subset,
                 total_rows  |-> Len(df.rows),
                 page        |-> page,
                 page_size   |-> page_size,
                 total_pages |-> PyFloorDiv(Len(df.rows) + page_size - 1, page_size)])

\* main.py get_data_summary, get_raw_data and get_chart_data
main_read(df0, op, arg) ==
    IF df0 = None
    THEN Effect(df0, FALSE, Result(404, "NoDataLoaded", None))
    ELSE CASE op = "get_summary" ->
                Effect(df0, FALSE, Result(200, "", main_compute_summary(df0)))
           [] op = "get_raw_data" ->
                LET res == main_get_raw_data(df0, arg.page, arg.page_size)
                IN  Effect(df0, FALSE,
                           IF res.ok THEN Result(200, "", res.value)
                           ELSE Result(500, res.error, None))
           [] op = "get_chart" ->
                IF HandlerFor(arg.chart_type) = <<>>
                THEN Effect(df0, FALSE,
                            Result(400, "UnknownChartType", [available |-> ChartTypes]))
                ELSE LET res == main_CHART_HANDLERS(arg.chart_type, df0)
                     IN  Effect(df0, FALSE,
                                IF res.ok
                                THEN Result(200, "", [chart_type |-> arg.chart_type,
                                                      data |-> res.value])
                                ELSE Result(500, res.error, None))

\* one request served by both applications: `a` is the routers' effect, `b`
\* main.py's
Both(op, req, a, b) ==
    /\ current_df' = a.df
    /\ upload_dir' = IF a.wrote THEN upload_dir \cup {req.filename} ELSE upload_dir
    /\ resp' = Response(op, req, a.result.status, a.result.error, a.result.body,
                        <<>>, FALSE)
    /\ main' = [current_df |-> b.df,
                upload_dir |-> IF b.wrote THEN main.upload_dir \cup {req.filename}
                               ELSE main.upload_dir,
                resp |-> Response(op, req, b.result.status, b.result.error,
                                  b.result.body, <<>>, FALSE)]
    /\ UNCHANGED <<last_ok, settings, first_summary, reqs>>

\* GET /sample and GET /api/sample; the sample file is readable or it is not
EqLoadSample ==
    \E readable \in {TRUE, FALSE} :
        Both("load_sample", None,
             router_load_sample_data(current_df, readable),
             main_load_sample_data(main.current_df, readable))

\* the uploads served to both: those of Contents, and a file whose only
\* date column is named Month
EqContents ==
    Contents \cup {[nbytes |-> 1, decodable |-> TRUE,
                    lines |-> CsvLines(<<colMonthCap, colCustomers>>, <<"jan">>)]}

\* POST /upload and POST /api/upload with the same file; the upload directory
\* is writable or it is not
EqUploadCsv(filename) ==
    IF ~FilenameAccepted(filename)
    THEN Both("upload", [filename |-> filename],
              router_upload_csv(current_df, filename, None, TRUE),
              main_upload_csv(main.current_df, filename, None, TRUE))
    ELSE \E contents \in EqContents :
           \E writable \in IF contents.nbytes <= MAX_FILE_SIZE /\ ReadCsv(contents).ok
                               /\ ~DfEmpty(ReadCsv(contents).df)
                            THEN {TRUE, FALSE} ELSE {TRUE} :
              Both("upload", UploadRequest(filename, contents),
                   router_upload_csv(current_df, filename, contents, writable),
                   main_upload_csv(main.current_df, filename, contents, writable))

\* GET /data and GET /api/data
EqGetDataSummary ==
    Both("get_summary", None,
         router_read(current_df, "get_summary", None),
         main_read(main.current_df, "get_summary", None))

\* GET /data/raw and GET /api/data/raw
EqGetRawData(page, page_size) ==
    LET req == [page |-> page, page_size |-> page_size]
    IN  Both("get_raw_data", req,
             router_read(current_df, "get_raw_data", req),
             main_read(main.current_df, "get_raw_data", req))

\* GET /charts/{chart_type} and GET /api/charts/{chart_type}
EqGetChartData(chart_type) ==
    LET req == [chart_type |-> chart_type]
    IN  Both("get_chart", req,
             router_read(current_df, "get_chart", req),
             main_read(main.current_df, "get_chart", req))

NextEq ==
    \/ EqLoadSample
    \/ \E filename \in Filenames : EqUploadCsv(filename)
    \/ EqGetDataSummary
    \/ \E page \in Pages, page_size \in Pages : EqGetRawData(page, page_size)
    \/ \E chart_type \in ChartIds : EqGetChartData(chart_type)

SpecEq == Init /\ [][NextEq]_vars

\* Loads and summaries in a process started with any of three values of
\* MAX_FILE_SIZE_BYTES in its environment: 5 MB, the 10 MB default, 20 MB.
ConfiguredMaxima == {5242880, DEFAULT_MAX_FILE_SIZE_BYTES, 20971520}

InitCfg ==
    /\ current_df = None
    /\ upload_dir = {}
    /\ resp = Response("none", None, 0, "", None, <<>>, FALSE)
    /\ last_ok = NotTracked
    /\ settings \in {[max_file_size_bytes |-> m] : m \in ConfiguredMaxima}
    /\ first_summary = NotTracked
    /\ reqs = [t \in Threads |-> Idle]
    /\ main = MainStart

SpecCfg == InitCfg /\ [][NextHist]_vars

\* ------------------------------------------------------------------ claims
ReadOps == {"get_summary", "get_raw_data", "get_chart", "query"}

SixChartTypes == {"revenue-trend", "by-category", "by-region",
                  "campaign-performance", "conversion-funnel", "marketing-roi"}

C2_SummaryOfLastSuccessfulLoad ==
    (resp.op = "get_summary" /\ last_ok \notin {None, NotTracked})
        => /\ resp.status = 200
           /\ resp.body.row_count = last_ok.data_rows
           /\ resp.body.column_count = last_ok.header_fields

\* C3: an upload whose bytes parse to a non-empty dataset and whose copy to
\* the upload directory cannot be written still returns the success result,
\* with the parsed dataset active.
C3_WriteFailureNotSurfaced ==
    (/\ resp.op = "upload"
     /\ \E k \in 1..Len(resp.stages) : resp.stages[k] = "store"
     /\ \A k \in 1..Len(resp.stages) : resp.stages[k] # "persist")
        => /\ resp.status = 200
           /\ resp.error = ""

\* the columns a chart needs (spec 4.4) are not all in df
RequiredAbsent(chart_type, df) ==
    CASE chart_type = "revenue-trend" ->
            \/ NextOrNone(SelectSeq(df.columns, IsDateLike)) = <<>>
            \/ ~HasCol(df, colRevenue) \/ ~HasCol(df, colCustomers)
      [] chart_type = "by-category" ->
            NextOrNone(SelectSeq(df.columns, IsCategoryName)) = <<>> \/ ~HasCol(df, colRevenue)
      [] chart_type = "by-region" ->
            NextOrNone(SelectSeq(df.columns, IsRegionName)) = <<>> \/ ~HasCol(df, colRevenue)
      [] chart_type = "campaign-performance" ->
            \/ NextOrNone(SelectSeq(df.columns, IsCampaignName)) = <<>>
            \/ /\ ~HasCol(df, colRevenue)
               /\ ~HasCol(df, colMarketingSpend)
               /\ ~HasCol(df, colLeadsGenerated)
      [] chart_type = "conversion-funnel" ->
            /\ ~HasCol(df, colLeadsGenerated)
            /\ ~HasCol(df, colDealsClosed)
            /\ ~HasCol(df, colCustomers)
      [] chart_type = "marketing-roi" ->
            \/ NextOrNone(SelectSeq(df.columns, IsDateLike)) = <<>>
            \/ ~HasCol(df, colRevenue) \/ ~HasCol(df, colMarketingSpend)
      [] OTHER -> FALSE

\* C4: each of the six chart handlers returns an empty sequence, and raises
\* nothing, when a column it requires is absent from the active dataset.
C4_AbsentColumnsGiveEmpty ==
    (/\ resp.op = "get_chart"
     /\ current_df # None
     /\ RequiredAbsent(resp.req.chart_type, current_df))
        => /\ resp.status = 200
           /\ resp.body.data = <<>>

\* C5: get_raw_page with a non-positive page or page_size fails with
\* InvalidPaginationError: no page is returned and no other error is raised.
C5_NonPositiveRejected ==
    (/\ resp.op = "get_raw_data"
     /\ current_df # None
     /\ (resp.req.page <= 0 \/ resp.req.page_size <= 0))
        => /\ resp.status = 400
           /\ resp.error = "InvalidPagination"

\* C6: for an active dataset of n rows and positive page and page_size,
\* get_raw_page returns the rows at 0-based positions
\* [(page-1)*page_size, min(page*page_size, n)) in dataset order, with
\* total_rows = n and total_pages = ceil(n / page_size); a page beyond
\* total_pages is empty, with the same totals and no error.
C6_PageSlice ==
    (/\ resp.op = "get_raw_data"
     /\ current_df # None
     /\ resp.req.page > 0 /\ resp.req.page_size > 0)
        => LET n     == Len(current_df.rows)
               page  == resp.req.page
               size  == resp.req.page_size
               first == (page - 1) * size
               last  == IF page * size < n THEN page * size ELSE n
           IN  /\ resp.status = 200
               /\ resp.body.data =
                     [i \in 1..(IF last > first THEN last - first ELSE 0) |->
                        current_df.rows[first + i]]
               /\ resp.body.total_rows = n
               /\ resp.body.total_pages * size >= n
               /\ (resp.body.total_pages - 1) * size < n
               /\ (page > resp.body.total_pages => resp.body.data = <<>>)

\* a middle-or-last page that is not the first, and holds rows
C6_Witness ==
    /\ resp.op = "get_raw_data"
    /\ resp.status = 200
    /\ resp.req.page = 2
    /\ resp.body.total_pages = 2
    /\ Len(resp.body.data) = 1

\* C7: the date column the revenue-trend and marketing-roi charts group by is
\* the first column whose lowercased name contains 'date' or 'month', as for
\* the summary's date range: their records are keyed by that column's values.
C7_DateColumnBySubstring ==
    (/\ resp.op = "get_chart"
     /\ current_df # None
     /\ resp.req.chart_type \in {"revenue-trend", "marketing-roi"}
     /\ ~RequiredAbsent(resp.req.chart_type, current_df)
     /\ resp.status = 200)
        => LET col == NextOrNone(SelectSeq(current_df.columns, IsDateLike))[1]
           IN  [g \in 1..Len(resp.body.data) |-> resp.body.data[g].month]
                  = GroupKeys(current_df, col)

\* the dataset has the columns marketing-roi groups and divides, and the
\* marketing_spend of some date group sums to 0
ZeroSpendGroup(df) ==
    /\ _find_date_col(df) # <<>>
    /\ HasCol(df, colRevenue) /\ HasCol(df, colMarketingSpend)
    /\ \E i \in 1..Len(df.rows) :
          GroupSum(df, _find_date_col(df)[1],
                   Column(df, _find_date_col(df)[1])[i], colMarketingSpend) = 0

C9_UnknownChartType ==
    (resp.op = "get_chart" /\ resp.req.chart_type \notin SixChartTypes)
        => /\ resp.status = 400
           /\ resp.error = "UnknownChartType"
           /\ {resp.body.available[k] : k \in 1..Len(resp.body.available)} = SixChartTypes

\* C9 amended: while a dataset is active, get_chart with an identifier that is
\* not one of the six chart types fails with UnknownChartTypeError listing the
\* six valid identifiers, and returns no series.
C9_UnknownChartTypeWhenLoaded ==
    (/\ resp.op = "get_chart"
     /\ current_df # None
     /\ resp.req.chart_type \notin SixChartTypes)
        => /\ resp.status = 400
           /\ resp.error = "UnknownChartType"
           /\ {resp.body.available[k] : k \in 1..Len(resp.body.available)} = SixChartTypes
           /\ Len(resp.body.available) = 6

C9_Witness ==
    /\ resp.op = "get_chart"
    /\ current_df # None
    /\ resp.req.chart_type = "not-a-real-type"
    /\ resp.error = "UnknownChartType"

\* C10: an upload whose filename does not end in .csv is rejected with
\* UnsupportedFormatError after the extension test alone (the bytes are not
\* read, size-checked or parsed), and the active dataset and the upload
\* directory are left as they were.
C10_RejectedBeforeRead ==
    [][ (resp'.op = "upload" /\ ~EndsWith(resp'.req.filename, <<".","c","s","v">>))
           => /\ resp'.status = 400
              /\ resp'.error = "UnsupportedFormat"
              /\ resp'.stages = <<"extension">>
              /\ current_df' = current_df
              /\ upload_dir' = upload_dir ]_vars

C10_Witness ==
    /\ resp.op = "upload"
    /\ resp.req.filename = fnTxt
    /\ resp.error = "UnsupportedFormat"
    /\ current_df # None

\* an upload request whose bytes were read
BytesRead(r) == r.op = "upload" /\ "nbytes" \in DOMAIN r.req

\* C11: an upload whose byte length exceeds the configured maximum
\* (max_file_size_bytes) is rejected with FileTooLargeError before any parsing
\* attempt, and an upload whose length is at most the configured maximum is
\* never rejected as too large.
C11_ConfiguredMaximum ==
    BytesRead(resp)
        => /\ resp.req.nbytes > settings.max_file_size_bytes
                => /\ resp.status = 400
                   /\ resp.error = "FileTooLarge"
                   /\ resp.stages = <<"extension", "read", "size">>
           /\ resp.req.nbytes <= settings.max_file_size_bytes
                => resp.error # "FileTooLarge"

\* the bytes are a header line and nothing else, within the size limit
HeaderOnly(r) ==
    /\ BytesRead(r)
    /\ r.req.nbytes <= MAX_FILE_SIZE
    /\ r.req.decodable /\ r.req.nlines = 1

\* the bytes, within the size limit, are not tabular text at all
Unparsable(r) ==
    /\ BytesRead(r)
    /\ r.req.nbytes <= MAX_FILE_SIZE
    /\ (~r.req.decodable \/ r.req.nlines = 0)

\* C12: an upload that is well-formed but has a header and zero data rows
\* fails with EmptyDatasetError, which is not the error an unparsable upload
\* fails with, and the active dataset stays what it was.
C12_HeaderOnlyIsEmptyDataset ==
    [][ /\ HeaderOnly(resp')
            => /\ resp'.status = 400
               /\ resp'.error = "EmptyDataset"
               /\ current_df' = current_df
        /\ Unparsable(resp')
            => /\ resp'.status = 400
               /\ resp'.error = "ParseError"
               /\ resp'.error # "EmptyDataset" ]_vars

C12_Witness ==
    /\ HeaderOnly(resp)
    /\ resp.error = "EmptyDataset"
    /\ current_df # None

\* the read requests that have been answered
DoneReads == {t \in Threads : reqs[t].pc = "done"
                               /\ reqs[t].op \in {"get_summary", "get_raw_data", "get_chart"}}

\* the load requests that assigned the store
Stores == {t \in Threads : reqs[t].seq > 0}

\* C13: under any interleaving of loads and reads, every read response is
\* what the read computes from one single dataset that was the active one at
\* some instant during the request (or the no-data-loaded failure, when at
\* some instant there was none); and once no load is in flight, the active
\* dataset is the one stored by the load whose assignment came last.
C13_ReadsSeeOneDataset ==
    /\ \A t \in DoneReads :
          \/ /\ reqs[t].result.status = 404
             /\ None \in reqs[t].seen
          \/ \E d \in reqs[t].seen \ {None} :
                LET n     == Len(d.rows)
                    page  == reqs[t].arg.page
                    size  == reqs[t].arg.page_size
                    first == (page - 1) * size
                    last  == IF page * size < n THEN page * size ELSE n
                IN  CASE reqs[t].op = "get_summary" ->
                            /\ reqs[t].result.status = 200
                            /\ reqs[t].result.body = compute_summary(d)
                      [] reqs[t].op = "get_raw_data" ->
                            /\ reqs[t].result.status = 200
                            /\ reqs[t].result.body.total_rows = n
                            /\ reqs[t].result.body.total_pages * size >= n
                            /\ (reqs[t].result.body.total_pages - 1) * size < n
                            /\ reqs[t].result.body.data =
                                  [i \in 1..(IF last > first THEN last - first ELSE 0) |->
                                     d.rows[first + i]]
                      [] reqs[t].op = "get_chart" ->
                            /\ reqs[t].result.status = 200
                            /\ reqs[t].result.body.data =
                                  get_chart_data_revenue_trend(d).value
    /\ (Stores # {} /\ \A t \in Stores : reqs[t].pc = "done")
          => \E t \in Stores :
                /\ \A u \in Stores : reqs[u].seq <= reqs[t].seq
                /\ current_df = reqs[t].stored

\* a page request that began on one dataset and was answered after another
\* load replaced it
C13_Witness ==
    \E t \in DoneReads :
        /\ reqs[t].op = "get_raw_data"
        /\ reqs[t].result.status = 200
        /\ Cardinality(reqs[t].seen \ {None}) = 2
        /\ current_df # reqs[t].df

\* C14: a load that returns success returns the dataset this very load
\* stored: load_sample the summary of the sample frame it assigned, upload the
\* row and column counts of the frame parsed from its bytes, whatever other
\* load runs between its assignment and its return.
C14_LoadReturnsWhatItStored ==
    \A t \in Stores :
        (reqs[t].pc = "done" /\ reqs[t].result.status = 200)
            => IF reqs[t].op = "load_sample"
               THEN reqs[t].result.body = compute_summary(reqs[t].stored)
               ELSE /\ reqs[t].result.body.rows = Len(reqs[t].stored.rows)
                    /\ reqs[t].result.body.columns = Len(reqs[t].stored.columns)

\* C15: no read operation (summary, any chart, page, narrative context of a
\* query) changes the active dataset: the store holds the same frame, with
\* the same rows, column names and column order, after the read as before.
C15_ReadsLeaveStore ==
    [][ resp'.op \in ReadOps
            => /\ current_df' = current_df
               /\ upload_dir' = upload_dir ]_vars

\* after a marketing-roi chart was computed from it, the active dataset has
\* the columns it was loaded with
C15_Witness ==
    /\ resp.op = "get_chart"
    /\ resp.req.chart_type = "marketing-roi"
    /\ resp.status = 200
    /\ resp.body.data # <<>>
    /\ current_df.columns = <<kwMonth, colRevenue, colCustomers, colMarketingSpend>>

\* the distinct values of column col of df
Distinct(df, col) == {Column(df, col)[i] : i \in 1..Len(df.rows)}

\* C16: revenue-trend on a dataset with a date-role column (the first column
\* whose lowercased name contains 'date' or 'month'), revenue and customers
\* returns exactly one record per distinct value of that column, keyed
\* 'month', with the sums of revenue and customers over the rows of that
\* value, in ascending order of the key.
C16_RevenueTrendGroups ==
    (/\ resp.op = "get_chart"
     /\ resp.req.chart_type = "revenue-trend"
     /\ current_df # None
     /\ NextOrNone(SelectSeq(current_df.columns, IsDateLike)) # <<>>
     /\ HasCol(current_df, colRevenue) /\ HasCol(current_df, colCustomers))
        => LET col  == NextOrNone(SelectSeq(current_df.columns, IsDateLike))[1]
               data == resp.body.data
           IN  /\ resp.status = 200
               /\ Len(data) = Cardinality(Distinct(current_df, col))
               /\ \A g \in 1..Len(data) :
                     /\ data[g].month \in Distinct(current_df, col)
                     /\ data[g].revenue =
                           GroupSum(current_df, col, data[g].month, colRevenue)
                     /\ data[g].customers =
                           GroupSum(current_df, col, data[g].month, colCustomers)
               /\ \A g, h \in 1..Len(data) :
                     g < h => ValueLess(Dtype(current_df, col), data[g].month, data[h].month)

\* the cells of column col of df all parse as dates
AllParse(df, col) == \A i \in 1..Len(df.rows) : Column(df, col)[i] \in DOMAIN DateTable

\* C17: get_summary looks at the first date-like column only: when all its
\* values parse as dates, date_range is that column with its earliest and
\* latest date; when one fails, date_range is omitted even if a later
\* date-like column would parse; either way the summary succeeds and its
\* other fields are filled in.
C17_DateRangeOfFirstDateColumn ==
    (resp.op = "get_summary" /\ current_df # None)
        => LET found == NextOrNone(SelectSeq(current_df.columns, IsDateLike))
               dates == {DateTable[Column(current_df, found[1])[i]] :
                           i \in 1..Len(current_df.rows)}
           IN  /\ resp.status = 200
               /\ resp.body.row_count = Len(current_df.rows)
               /\ resp.body.column_count = Len(current_df.columns)
               /\ resp.body.columns = current_df.columns
               /\ Len(resp.body.summary_stats) = Len(resp.body.numeric_columns)
               /\ IF found # <<>> /\ AllParse(current_df, found[1])
                  THEN /\ resp.body.date_range.column = found[1]
                       /\ resp.body.date_range.min \in dates
                       /\ resp.body.date_range.max \in dates
                       /\ \A d \in dates : /\ Rank(resp.body.date_range.min) <= Rank(d)
                                           /\ Rank(d) <= Rank(resp.body.date_range.max)
                  ELSE resp.body.date_range = None

\* the first date-like column (Date) holds a value that is no date, a later
\* one (month) holds dates only, and the summary has no date range
C17_Witness ==
    /\ resp.op = "get_summary"
    /\ resp.status = 200
    /\ current_df.columns = <<colNotes, colDateCap, kwMonth, colCustomers>>
    /\ ~AllParse(current_df, colDateCap)
    /\ AllParse(current_df, kwMonth)
    /\ resp.body.date_range = None
    /\ resp.body.row_count = 2

\* C18: a get_summary answers exactly what the first get_summary since the
\* last load request answered.
C18_SummaryIdempotent ==
    (resp.op = "get_summary" /\ first_summary \notin {None, NotTracked})
        => /\ resp.status = first_summary.status
           /\ resp.body = first_summary.body

C18_Witness ==
    /\ resp.op = "get_summary"
    /\ resp.status = 200
    /\ first_summary \notin {None, NotTracked}
    /\ first_summary.calls = 2

FunnelStages == << [label |-> "Leads",        col |-> colLeadsGenerated],
                   [label |-> "Deals Closed", col |-> colDealsClosed],
                   [label |-> "Customers",    col |-> colCustomers] >>

\* C19: conversion-funnel returns one {stage, value} record for each of
\* leads_generated, deals_closed, customers that the dataset has and none for
\* one it lacks, the value being the column's sum, in the order Leads, Deals
\* Closed, Customers whatever the order of the columns; with none of the
\* three it returns an empty list.
C19_FunnelFixedOrder ==
    (/\ resp.op = "get_chart"
     /\ resp.req.chart_type = "conversion-funnel"
     /\ current_df # None)
        => LET data == resp.body.data
               Pos(stage) == CHOOSE k \in 1..3 : FunnelStages[k].label = stage
           IN  /\ resp.status = 200
               /\ Len(data) = Cardinality({k \in 1..3 : HasCol(current_df, FunnelStages[k].col)})
               /\ \A k \in 1..3 :
                     IF HasCol(current_df, FunnelStages[k].col)
                     THEN \E g \in 1..Len(data) :
                            /\ data[g].stage = FunnelStages[k].label
                            /\ data[g].value = ColSum(current_df, FunnelStages[k].col)
                     ELSE \A g \in 1..Len(data) : data[g].stage # FunnelStages[k].label
               /\ \A g, h \in 1..Len(data) : g < h => Pos(data[g].stage) < Pos(data[h].stage)

\* the dataset lists customers before deals_closed before leads_generated
C19_Witness ==
    /\ resp.op = "get_chart"
    /\ resp.req.chart_type = "conversion-funnel"
    /\ resp.status = 200
    /\ current_df.columns = <<colCustomers, colDealsClosed, colLeadsGenerated, colCampaignName>>
    /\ Len(resp.body.data) = 3
    /\ resp.body.data[1].stage = "Leads"
    /\ resp.body.data[3].value = 8

Rejections == {"UnsupportedFormat", "FileTooLarge", "ParseError", "EmptyDataset"}

\* C20: an upload rejected for an unsupported extension, as too large, as
\* unparsable or as empty leaves the store as it was: the active dataset is
\* the one that was active (or still none), and nothing is written.
C20_RejectedUploadLeavesStore ==
    [][ (resp'.op = "upload" /\ resp'.error \in Rejections)
            => /\ resp'.status = 400
               /\ current_df' = current_df
               /\ upload_dir' = upload_dir ]_vars

C20_Witness ==
    /\ resp.op = "upload"
    /\ resp.error = "FileTooLarge"
    /\ current_df # None
    /\ current_df.columns = <<kwMonth, colRevenue, colCustomers, colMarketingSpend>>

\* C21: served the same sequence of load_sample, upload, get_summary,
\* get_raw_page and get_chart requests from the same start, main.py and the
\* routers with their service end every step with the same active dataset
\* and the same outcome (success, or the same kind of failure), an upload
\* rejected as empty included.
C21_MainEquivalent ==
    /\ main.current_df = current_df
    /\ main.resp.status = resp.status
    /\ main.resp.error = resp.error

====
